---- MODULE Spec2Model ----
(***************************************************************************)
(* File_Transfer: the location classifier (file_transfer.py), the          *)
(* transfer executors and their selector (file_transfer.py: move_files),   *)
(* the Lambda dispatcher and its EC2 orchestrator (handler.py), and the    *)
(* bash bootstrap script the orchestrator templates.                       *)
(*                                                                         *)
(* A Python str is a sequence of one-character strings, so that `in`,      *)
(* split and the regular expression are computed, not assumed.  A Python   *)
(* call is an operator that yields a record: exc (the exception raised,    *)
(* "none" when it returns), at (the function that raised), ret (the value  *)
(* returned) and calls (the external calls made, in order).               *)
(***************************************************************************)
EXTENDS Integers, Sequences, FiniteSets, TLC

VARIABLES
    directory,   \* the argument of identify_location_type under SpecClassify
    classified,  \* its outcome, "pending" until the function has been applied
    event,       \* the Lambda event / the CLI arguments: source and target
    env,         \* os.environ: a function from the defined names to values
    world,       \* how each external collaborator answers when called
    pc,          \* "ready", then "returned" or "raised"
    out,         \* what the invoked entry point did
    boot         \* the transient instance running the bootstrap script

vars == <<directory, classified, event, env, world, pc, out, boot>>

(***************************************************************************)
(* Python str primitives                                                   *)
(***************************************************************************)

Digits == {"0", "1", "2", "3", "4", "5", "6", "7", "8", "9"}

\* str.find(sub, i): the least index >= i at which sub occurs in s, 0 if none
Find(s, sub, i) ==
    LET hits == {j \in i..(Len(s) - Len(sub) + 1) :
                     \A k \in 1..Len(sub) : s[j + k - 1] = sub[k]}
    IN  IF hits = {} THEN 0
        ELSE CHOOSE j \in hits : \A h \in hits : j <= h

\* sub in s
Contains(s, sub) == Find(s, sub, 1) # 0

\* s.split(sep, maxsplit); maxsplit = -1 is Python's "no limit"
RECURSIVE Split(_, _, _)
Split(s, sep, maxsplit) ==
    LET i == Find(s, sep, 1)
    IN  IF i = 0 \/ maxsplit = 0 THEN <<s>>
        ELSE <<SubSeq(s, 1, i - 1)>>
                 \o Split(SubSeq(s, i + Len(sep), Len(s)), sep, maxsplit - 1)

\* sep.join(parts)
RECURSIVE Join(_, _)
Join(parts, sep) ==
    IF Len(parts) = 0 THEN <<>>
    ELSE IF Len(parts) = 1 THEN parts[1]
    ELSE parts[1] \o sep \o Join(Tail(parts), sep)

Slash == <<"/">>
Dot == <<".">>
S3Marker == <<"s", "3", ":", "/", "/">>

(***************************************************************************)
(* The regular expression of identify_location_type,                       *)
(*   ^((25[0-5]|2[0-4][0-9]|[01]?[0-9][0-9]?)\.){3}                        *)
(*     (25[0-5]|2[0-4][0-9]|[01]?[0-9][0-9]?)$                             *)
(***************************************************************************)

\* 25[0-5] | 2[0-4][0-9] | [01]?[0-9][0-9]?  matched against the whole of o
OctetAlternatives(o) ==
    \/ /\ Len(o) = 3
       /\ o[1] = "2" /\ o[2] = "5"
       /\ o[3] \in {"0", "1", "2", "3", "4", "5"}
    \/ /\ Len(o) = 3
       /\ o[1] = "2"
       /\ o[2] \in {"0", "1", "2", "3", "4"}
       /\ o[3] \in Digits
    \/ /\ Len(o) \in 1..3
       /\ \A i \in 1..Len(o) : o[i] \in Digits
       /\ Len(o) = 3 => o[1] \in {"0", "1"}

\* ^(octet\.){3}octet anchored at both ends of s: no octet holds a ".", so the
\* groups are the "."-separated parts
AnchoredQuad(s) ==
    LET parts == Split(s, Dot, -1)
    IN  /\ Len(parts) = 4
        /\ \A i \in 1..4 : OctetAlternatives(parts[i])

\* re.search(pattern, s) != None.  Python's $ matches at the end of the string
\* and also just before a newline that ends the string.
RegexSearch(s) ==
    \/ AnchoredQuad(s)
    \/ /\ Len(s) > 0
       /\ s[Len(s)] = "\n"
       /\ AnchoredQuad(SubSeq(s, 1, Len(s) - 1))

(***************************************************************************)
(* file_transfer.identify_location_type                                    *)
(***************************************************************************)

Returns(v, cs) == [exc |-> "none", at |-> "none", ret |-> v, calls |-> cs]
Raises(e, where, cs) == [exc |-> e, at |-> where, ret |-> "none", calls |-> cs]

\* the mutant: the marker is looked for at the start of the string only
identify_location_type_startswith(d) ==
    IF Len(d) >= Len(S3Marker) /\ SubSeq(d, 1, Len(S3Marker)) = S3Marker
    THEN Returns("s3", <<>>)
    ELSE LET rootURL == Split(d, Slash, -1)[1]
         IN  IF RegexSearch(rootURL)
             THEN IF Len(Split(d, Slash, -1)) >= 2
                  THEN Returns("on-prem", <<>>)
                  ELSE Raises("Exception", "identify_location_type", <<>>)
             ELSE Raises("Exception", "identify_location_type", <<>>)

\* the mutant: the octet alternatives lose their two-digit case
identify_location_type_narrow(d) ==
    IF Contains(d, S3Marker)
    THEN Returns("s3", <<>>)
    ELSE LET parts == Split(Split(d, Slash, -1)[1], Dot, -1)
         IN  IF /\ Len(parts) = 4
                /\ \A i \in 1..4 :
                       /\ Len(parts[i]) \in {1, 3}
                       /\ OctetAlternatives(parts[i])
             THEN IF Len(Split(d, Slash, -1)) >= 2
                  THEN Returns("on-prem", <<>>)
                  ELSE Raises("Exception", "identify_location_type", <<>>)
             ELSE Raises("Exception", "identify_location_type", <<>>)

identify_location_type(d) ==
    IF Contains(d, S3Marker)
    THEN Returns("s3", <<>>)
    ELSE LET rootURL == Split(d, Slash, -1)[1]
         IN  IF RegexSearch(rootURL)
             THEN \* directory.split("/")[1]: IndexError, re-raised as Exception
                  IF Len(Split(d, Slash, -1)) >= 2
                  THEN Returns("on-prem", <<>>)
                  ELSE Raises("Exception", "identify_location_type", <<>>)
             ELSE Raises("Exception", "identify_location_type", <<>>)

(***************************************************************************)
(* The external collaborators                                              *)
(***************************************************************************)

NumInstanceIds == 2

\* the InstanceId of ec2_response['Instances'][0]
InstanceId(n) == "i-" \o ToString(n)

Call(op, ok) == [op |-> op, ok |-> ok]

\* a KMS ciphertext and what boto3.client('kms').decrypt makes of it
Ciphertext(plain) == <<"kms", plain>>
Plaintext(blob) == blob[2]

FullEnv ==
    [ PYTHON_HANDLER    |-> "main.py",
      AD_username       |-> Ciphertext("svc_user"),
      AD_key            |-> Ciphertext("svc_pass"),
      EC2_PEM_KEY       |-> "pem",
      EC2_INSTANCE_TYPE |-> "t2.micro",
      SECURITY_GROUP    |-> "sg",
      VPC_SUBNET        |-> "subnet" ]

Without(name) == [k \in (DOMAIN FullEnv) \ {name} |-> FullEnv[k]]

\* the environments: fully configured, or with one variable not set
Envs ==
    {FullEnv} \cup
    {Without(n) : n \in {"PYTHON_HANDLER", "AD_username", "AD_key", "VPC_SUBNET"}}

\* every collaborator answers well
OkWorld ==
    [ kms |-> "ok", ec2 |-> 1, s3mv |-> "ok", s3client |-> "ok",
      connect |-> "True", retrieve |-> "ok", upload |-> "ok" ]

\* lambda_handler reaches no collaborator but the provisioner, and move_files
\* never reaches the provisioner: the provisioner's answers are varied with the
\* others answering well, and the others' with the provisioner answering well
Worlds ==
    { w \in [ kms      : {"ok", "rejects_username", "rejects_password"},
              ec2      : 0..NumInstanceIds,  \* 0: run_instances raises; n: id n
              s3mv     : {"ok", "raises"},
              s3client : {"ok", "raises"},
              connect  : {"True", "False", "raises"},
              retrieve : {"ok", "raises"},
              upload   : {"ok", "raises"} ] :
          w.ec2 = 1 \/ [w EXCEPT !.ec2 = 1] = OkWorld }

(***************************************************************************)
(* file_transfer.py: credentials and the four executors                    *)
(***************************************************************************)

decrypt_KMS_credentials(username, password, w) ==
    IF w.kms = "rejects_username"
    THEN Raises("ClientError", "decrypt_KMS_credentials",
                <<Call("kms.decrypt", FALSE)>>)
    ELSE IF w.kms = "rejects_password"
    THEN Raises("ClientError", "decrypt_KMS_credentials",
                <<Call("kms.decrypt", TRUE), Call("kms.decrypt", FALSE)>>)
    ELSE Returns(<<Plaintext(username), Plaintext(password)>>,
                 <<Call("kms.decrypt", TRUE), Call("kms.decrypt", TRUE)>>)

_move_s3_to_s3(source_location, target_location, w) ==
    \* both locations hold "s3://", so split("s3://")[1] exists
    IF w.s3mv = "raises"
    THEN Raises("Exception", "_move_s3_to_s3", <<Call("s3.mv", FALSE)>>)
    ELSE Returns("True", <<Call("s3.mv", TRUE)>>)

\* a stub: returns the class Exception, raises nothing, calls nothing
_move_on_prem_to_on_prem(source_location, target_location) ==
    Returns("Exception", <<>>)

\* a stub: returns the class Exception, raises nothing, calls nothing
_move_s3_to_on_prem(source_location, target_location) ==
    Returns("Exception", <<>>)

_move_on_prem_to_s3(source_location, target_location, e, w) ==
    IF "AD_username" \notin DOMAIN e \/ "AD_key" \notin DOMAIN e
    THEN Raises("KeyError", "os.environ", <<>>)
    ELSE
    LET cred == decrypt_KMS_credentials(e["AD_username"], e["AD_key"], w)
        connected == Append(cred.calls, Call("smb.connect", w.connect = "True"))
        retrieved == Append(connected, Call("smb.retrieveFile", w.retrieve = "ok"))
        uploaded == Append(retrieved, Call("s3.upload_fileobj", w.upload = "ok"))
    IN  IF cred.exc # "none" THEN cred
        \* source_location.split("/", 2)[2]
        ELSE IF Len(Split(source_location, Slash, 2)) < 3
        THEN Raises("IndexError", "_move_on_prem_to_s3", cred.calls)
        \* try: boto3.client('s3') except: return False
        ELSE IF w.s3client = "raises" THEN Returns("False", cred.calls)
        ELSE IF w.connect = "raises"
        THEN Raises("SMBError", "_move_on_prem_to_s3", connected)
        ELSE IF w.connect = "False" THEN Returns("False", connected)
        \* both try blocks log the exception and go on
        ELSE Returns("True", uploaded)

(***************************************************************************)
(* file_transfer.move_files                                                *)
(***************************************************************************)

\* the executor `strategy` was called and did r
Selected(strategy, r) ==
    [exc |-> r.exc, at |-> r.at, ret |-> "None", calls |-> r.calls,
     strategy |-> strategy, execRet |-> r.ret]

\* no executor was called
NotSelected(r) ==
    [exc |-> r.exc, at |-> r.at, ret |-> "None", calls |-> r.calls,
     strategy |-> "none", execRet |-> "none"]

\* the mutant: the on-prem to on-prem branch is missing from the chain
move_files_fallthrough(source_location, target_location, e, w) ==
    LET source_type == identify_location_type(source_location)
        target_type == identify_location_type(target_location)
    IN  IF source_type.exc # "none" THEN NotSelected(source_type)
        ELSE IF target_type.exc # "none" THEN NotSelected(target_type)
        ELSE IF source_type.ret = "s3" /\ target_type.ret = "s3"
        THEN Selected("_move_s3_to_s3",
                      _move_s3_to_s3(source_location, target_location, w))
        ELSE IF source_type.ret = "s3" /\ target_type.ret = "on-prem"
        THEN Selected("_move_s3_to_on_prem",
                      _move_s3_to_on_prem(source_location, target_location))
        ELSE IF source_type.ret = "on-prem" /\ target_type.ret = "s3"
        THEN Selected("_move_on_prem_to_s3",
                      _move_on_prem_to_s3(source_location, target_location, e, w))
        ELSE NotSelected(Returns("None", <<>>))

\* the mutant: the target is classified only after an S3 source has been moved
move_files_late_target(source_location, target_location, e, w) ==
    LET source_type == identify_location_type(source_location)
        target_type == identify_location_type(target_location)
        moved == _move_s3_to_s3(source_location, target_location, w)
    IN  IF source_type.exc # "none" THEN NotSelected(source_type)
        ELSE IF source_type.ret = "s3"
        THEN IF moved.exc # "none" THEN Selected("_move_s3_to_s3", moved)
             ELSE IF target_type.exc # "none"
             THEN NotSelected(Raises(target_type.exc, target_type.at, moved.calls))
             ELSE Selected("_move_s3_to_s3", moved)
        ELSE IF target_type.exc # "none" THEN NotSelected(target_type)
        ELSE IF target_type.ret = "on-prem"
        THEN Selected("_move_on_prem_to_on_prem",
                      _move_on_prem_to_on_prem(source_location, target_location))
        ELSE Selected("_move_on_prem_to_s3",
                      _move_on_prem_to_s3(source_location, target_location, e, w))

move_files(source_location, target_location, e, w) ==
    LET source_type == identify_location_type(source_location)
        target_type == identify_location_type(target_location)
    IN  IF source_type.exc # "none" THEN NotSelected(source_type)
        ELSE IF target_type.exc # "none" THEN NotSelected(target_type)
        ELSE IF source_type.ret = "s3" /\ target_type.ret = "s3"
        THEN Selected("_move_s3_to_s3",
                      _move_s3_to_s3(source_location, target_location, w))
        ELSE IF source_type.ret = "s3" /\ target_type.ret = "on-prem"
        THEN Selected("_move_s3_to_on_prem",
                      _move_s3_to_on_prem(source_location, target_location))
        ELSE IF source_type.ret = "on-prem" /\ target_type.ret = "on-prem"
        THEN Selected("_move_on_prem_to_on_prem",
                      _move_on_prem_to_on_prem(source_location, target_location))
        ELSE IF source_type.ret = "on-prem" /\ target_type.ret = "s3"
        THEN Selected("_move_on_prem_to_s3",
                      _move_on_prem_to_s3(source_location, target_location, e, w))
        \* the chain has no else: the function falls off its end
        ELSE NotSelected(Returns("None", <<>>))

(***************************************************************************)
(* handler.py: the bootstrap script, create_EC2 and lambda_handler         *)
(***************************************************************************)

\* the names bound at the top level of handler.py (lines 4 to 18, and its defs)
HandlerGlobals ==
    {"boto3", "os", "datetime", "logging", "b64decode", "file_transfer",
     "region", "ec2", "logger",
     "create_s3_onprem_bootstrap_script", "create_EC2", "lambda_handler"}

\* the f-string of create_s3_onprem_bootstrap_script: one tuple per line that is
\* not blank, the line's first word first ("#" for a comment line), the
\* substituted values in their places; the two backquoted date commands are
\* written $(date ...)
bash_bootstrap_script(source_location, target_location, python_handler, username, password) ==
    << <<"#", "!/bin/bash">>,
       <<"sudo", "su;">>,
       <<"#", " Create mounted directory">>,
       <<"mounted_directory=/mnt/drive;">>,
       <<"mkdir", "$mounted_directory;">>,
       <<"cd", "$mounted_directory;">>,
       <<"echo", "\"//", target_location,
         "  $mounted_directory  cifs  username=", username,
         ",password=", password,
         ",dir_mode=0777,file_mode=0777,noperm  0  0\"", ">>", "/etc/fstab;">>,
       <<"mount", "-a;">>,
       <<"#", "Update to Python3">>,
       <<"yum", "install python36 -y;">>,
       <<"pip", "install -r requirements.txt;">>,
       <<"#", "Create log file">>,
       <<"mkdir", "/log;">>,
       <<"filename=", "$(date \"+%Y%m%d-%H%M\")", "_log.out;">>,
       <<"echo", "$(date)", ">", "/log/$filename;">>,
       <<"#", "Execute file transfer">>,
       <<"#", "python3 ", python_handler, " --source ", source_location,
         " --target $mounted_directory > /log/$filename;">>,
       <<"aws", "s3 cp /log/$filename s3://bucket-test/ec2-log/;">>,
       <<"#", "Self-terminate">>,
       <<"shutdown", "-h now;">> >>

\* line 44 subscripts the name decrypt_KMS_credentials, which handler.py never
\* binds (it imports the module file_transfer, not the function): the name is
\* looked up before the subscript is evaluated, and the lookup raises
create_s3_onprem_bootstrap_script(source_location, target_location, python_handler, e, w) ==
    IF "decrypt_KMS_credentials" \notin HandlerGlobals
    THEN Raises("NameError", "create_s3_onprem_bootstrap_script", <<>>)
    ELSE IF "AD_username" \notin DOMAIN e \/ "AD_key" \notin DOMAIN e
    THEN Raises("KeyError", "os.environ", <<>>)
    \* a function object is not subscriptable
    ELSE Raises("TypeError", "create_s3_onprem_bootstrap_script", <<>>)

create_EC2(source_location, target_location, python_handler, e, w) ==
    LET userdata == create_s3_onprem_bootstrap_script(
                        source_location, target_location, python_handler, e, w)
    IN  IF userdata.exc # "none" THEN userdata
        ELSE IF \E k \in {"EC2_PEM_KEY", "EC2_INSTANCE_TYPE",
                          "SECURITY_GROUP", "VPC_SUBNET"} : k \notin DOMAIN e
        THEN Raises("KeyError", "os.environ", userdata.calls)
        ELSE IF w.ec2 = 0
        THEN Raises("ClientError", "ec2.run_instances",
                    Append(userdata.calls, Call("ec2.run_instances", FALSE)))
        ELSE Returns(InstanceId(w.ec2),
                     Append(userdata.calls, Call("ec2.run_instances", TRUE)))

\* the API Gateway response; the body is the f-string's pieces in order
Response(message) ==
    [statusCode |-> 200, body |-> <<"File transfer started. ">> \o message]

NoResponse == [statusCode |-> 0, body |-> <<>>]

\* the mutant: the first branch tests the target for on-prem
lambda_handler_wrong_branch(ev, e, w) ==
    LET target_type == identify_location_type(ev.target_location)
        source_type == identify_location_type(ev.source_location)
    IN  IF target_type.exc # "none" THEN target_type
        ELSE IF source_type.exc # "none" THEN source_type
        ELSE IF "PYTHON_HANDLER" \notin DOMAIN e
        THEN Raises("KeyError", "os.environ", <<>>)
        ELSE IF source_type.ret = "s3" /\ target_type.ret = "on-prem"
        THEN Returns(Response(<<"AWS transfer only - not required.">>), <<>>)
        ELSE IF source_type.ret = "on-prem" \/ target_type.ret = "on-prem"
        THEN LET ec2_id == create_EC2(ev.source_location, ev.target_location,
                                      e["PYTHON_HANDLER"], e, w)
             IN  IF ec2_id.exc # "none" THEN ec2_id
                 ELSE Returns(
                     Response(<<"EC2 file transfer spun up. instance id is ",
                                ec2_id.ret>>),
                     ec2_id.calls)
        ELSE Returns(Response(<<>>), <<>>)

lambda_handler(ev, e, w) ==
    LET target_type == identify_location_type(ev.target_location)
        source_type == identify_location_type(ev.source_location)
    IN  IF target_type.exc # "none" THEN target_type
        ELSE IF source_type.exc # "none" THEN source_type
        ELSE IF "PYTHON_HANDLER" \notin DOMAIN e
        THEN Raises("KeyError", "os.environ", <<>>)
        ELSE IF source_type.ret = "s3" /\ target_type.ret = "s3"
        THEN Returns(Response(<<"AWS transfer only - not required.">>), <<>>)
        ELSE IF source_type.ret = "on-prem" \/ target_type.ret = "on-prem"
        THEN LET ec2_id == create_EC2(ev.source_location, ev.target_location,
                                      e["PYTHON_HANDLER"], e, w)
             IN  IF ec2_id.exc # "none" THEN ec2_id
                 ELSE Returns(
                     Response(<<"EC2 file transfer spun up. instance id is ",
                                ec2_id.ret>>),
                     ec2_id.calls)
        \* message stays ''
        ELSE Returns(Response(<<>>), <<>>)

(***************************************************************************)
(* The bootstrap script on the instance: bash runs the lines in order,     *)
(* skips comment lines, and goes on after a command whatever it returns    *)
(***************************************************************************)

\* the lifecycle stage a command line carries out ("none": no stage of its own)
Stage(line) ==
    IF line[1] = "mount" THEN "mounting"
    ELSE IF line[1] = "echo" /\ line[Len(line)] = "/log/$filename;"
    THEN "log_created"
    ELSE IF line[1] = "python3" THEN "transferring"
    ELSE IF line[1] = "aws" THEN "log_uploaded"
    ELSE IF line[1] = "shutdown" THEN "terminated"
    ELSE "none"

NotLaunched == [state |-> "NotLaunched", script |-> <<>>, ip |-> 0, stages |-> <<>>]

\* the instance boots with the script as its user data
Launched(script) ==
    [state |-> "Running", script |-> script, ip |-> 1, stages |-> <<>>]

(***************************************************************************)
(* Inputs                                                                  *)
(***************************************************************************)

MaxTailSegments == 3

S3Scheme == <<"s", "3", ":">>
Bucket == <<"b">>
Share == <<"s", "h", "a", "r", "e">>
FileCsv == <<"f", ".", "c", "s", "v">>
Ip_10_21_13_12 == <<"1", "0", ".", "2", "1", ".", "1", "3", ".", "1", "2">>
Ip_10_10_10_100 == <<"1", "0", ".", "1", "0", ".", "1", "0", ".", "1", "0", "0">>

\* first segments: the marker's head, addresses in and out of range, near misses
Roots ==
    {
      <<>>,  \* ""
      <<"s", "3", ":">>,  \* "s3:"
      <<"x", "s", "3", ":">>,  \* "xs3:"
      <<"h", "o", "s", "t">>,  \* "host"
      <<"1", "0", ".", "2", "1", ".", "1", "3", ".", "1", "2">>,  \* "10.21.13.12"
      <<"1", "0", ".", "1", "0", ".", "1", "0", ".", "1", "0", "0">>,  \* "10.10.10.100"
      <<"1", ".", "2", ".", "3", ".", "4">>,  \* "1.2.3.4"
      <<"0", ".", "0", ".", "0", ".", "0">>,  \* "0.0.0.0"
      <<"2", "5", "5", ".", "2", "5", "5", ".", "2", "5", "5", ".", "2", "5", "5">>,  \* "255.255.255.255"
      <<"2", "4", "9", ".", "2", "5", "0", ".", "1", "9", "9", ".", "2", "0", "0">>,  \* "249.250.199.200"
      <<"0", "1", ".", "0", "2", ".", "0", "3", ".", "0", "4">>,  \* "01.02.03.04"
      <<"2", "5", "6", ".", "1", ".", "1", ".", "1">>,  \* "256.1.1.1"
      <<"1", ".", "2", ".", "3", ".", "2", "6", "0">>,  \* "1.2.3.260"
      <<"1", ".", "2", ".", "3", ".", "1", "0", "0", "0">>,  \* "1.2.3.1000"
      <<"3", "0", "0", ".", "1", ".", "1", ".", "1">>,  \* "300.1.1.1"
      <<"1", ".", "2", ".", "3">>,  \* "1.2.3"
      <<"1", ".", "2", ".", "3", ".", "4", ".", "5">>,  \* "1.2.3.4.5"
      <<"1", ".", ".", "3", ".", "4">>,  \* "1..3.4"
      <<"1", ".", "2", ".", "3", ".">>,  \* "1.2.3."
      <<"1", ".", "2", ".", "3", ".", "4", "\n">>,  \* "1.2.3.4\n"
      <<"a", "1", ".", "2", ".", "3", ".", "4">>,  \* "a1.2.3.4"
      <<"1", ".", "2", ".", "3", ".", "4", "a">>,  \* "1.2.3.4a"
      <<"1", ",", "2", ",", "3", ",", "4">>   \* "1,2,3,4"
    }

\* the segments that may follow, each after a "/"
TailPool == {<<>>, S3Scheme, Bucket, Share, FileCsv}

Tails == UNION {[1..n -> TailPool] : n \in 0..MaxTailSegments}

Locations == {Join(<<r>> \o t, Slash) : r \in Roots, t \in Tails}

\* the locations of the dispatcher's and the CLI's requests
EventLocations ==
    { Join(<<S3Scheme, <<>>, Bucket, FileCsv>>, Slash),     \* s3://b/f.csv
      Join(<<S3Scheme, <<>>, Bucket>>, Slash),              \* s3://b
      Join(<<Ip_10_21_13_12, Share, FileCsv>>, Slash),      \* 10.21.13.12/share/f.csv
      Join(<<Ip_10_10_10_100, Share>>, Slash),              \* 10.10.10.100/share
      Ip_10_21_13_12 }                                      \* 10.21.13.12, no share

Events == [source_location : EventLocations, target_location : EventLocations]

(***************************************************************************)
(* The state machine                                                       *)
(***************************************************************************)

Pending == [exc |-> "pending", at |-> "none", ret |-> "none", calls |-> <<>>]

Idle ==
    [entry |-> "none", exc |-> "none", at |-> "none", calls |-> <<>>,
     strategy |-> "none", execRet |-> "none", response |-> NoResponse]

NoEvent == [source_location |-> <<>>, target_location |-> <<>>]

\* one invocation of the Lambda entry point, or of the CLI, with an event, an
\* environment and collaborators that answer as `world` says
Init ==
    /\ directory = <<>>
    /\ classified = Pending
    /\ event \in Events
    /\ env \in Envs
    /\ world \in Worlds
    /\ pc = "ready"
    /\ out = Idle
    /\ boot = NotLaunched

\* handler.lambda_handler(event, context)
LambdaHandler ==
    /\ pc = "ready"
    /\ LET r == lambda_handler(event, env, world)
       IN  /\ out' = [entry |-> "lambda_handler", exc |-> r.exc, at |-> r.at,
                      calls |-> r.calls, strategy |-> "none", execRet |-> "none",
                      response |-> IF r.exc = "none" THEN r.ret ELSE NoResponse]
           /\ pc' = IF r.exc = "none" THEN "returned" ELSE "raised"
    /\ UNCHANGED <<directory, classified, event, env, world, boot>>

\* file_transfer.py run with --source and --target: move_files(source, target)
MoveFiles ==
    /\ pc = "ready"
    /\ LET r == move_files(event.source_location, event.target_location, env, world)
       IN  /\ out' = [entry |-> "move_files", exc |-> r.exc, at |-> r.at,
                      calls |-> r.calls, strategy |-> r.strategy,
                      execRet |-> r.execRet, response |-> NoResponse]
           /\ pc' = IF r.exc = "none" THEN "returned" ELSE "raised"
    /\ UNCHANGED <<directory, classified, event, env, world, boot>>

Next == LambdaHandler \/ MoveFiles

Spec == Init /\ [][Next]_vars

\* identify_location_type applied to one location
InitClassify ==
    /\ directory \in Locations
    /\ classified = Pending
    /\ event = NoEvent
    /\ env = FullEnv
    /\ world = OkWorld
    /\ pc = "ready"
    /\ out = Idle
    /\ boot = NotLaunched

Classify ==
    /\ classified.exc = "pending"
    /\ classified' = identify_location_type(directory)
    /\ UNCHANGED <<directory, event, env, world, pc, out, boot>>

NextClassify == Classify

SpecClassify == InitClassify /\ [][NextClassify]_vars

\* an instance booted with the script templated for the event's locations, the
\* configured handler and the decrypted credentials
InitScript ==
    /\ directory = <<>>
    /\ classified = Pending
    /\ event \in Events
    /\ env = FullEnv
    /\ world = OkWorld
    /\ pc = "ready"
    /\ out = Idle
    /\ boot = Launched(bash_bootstrap_script(
                  event.source_location, event.target_location,
                  env["PYTHON_HANDLER"],
                  Plaintext(env["AD_username"]), Plaintext(env["AD_key"])))

\* bash passes over a comment line
SkipComment ==
    /\ boot.state = "Running"
    /\ boot.ip <= Len(boot.script)
    /\ boot.script[boot.ip][1] = "#"
    /\ boot' = [boot EXCEPT !.ip = @ + 1]
    /\ UNCHANGED <<directory, classified, event, env, world, pc, out>>

\* bash runs a command line; shutdown -h now ends the instance
ExecuteCommand ==
    /\ boot.state = "Running"
    /\ boot.ip <= Len(boot.script)
    /\ boot.script[boot.ip][1] # "#"
    /\ LET stage == Stage(boot.script[boot.ip])
       IN  boot' = [boot EXCEPT
                      !.ip = @ + 1,
                      !.stages = IF stage = "none" THEN @ ELSE Append(@, stage),
                      !.state = IF stage = "terminated" THEN "SelfTerminated" ELSE @]
    /\ UNCHANGED <<directory, classified, event, env, world, pc, out>>

NextScript == SkipComment \/ ExecuteCommand

SpecScript == InitScript /\ [][NextScript]_vars

(***************************************************************************)
(* What the claims speak of, stated apart from the code's own tests        *)
(***************************************************************************)

\* the five characters s3:// stand somewhere in d
HasMarker(d) ==
    \E i \in 1..Len(d) :
        /\ i + 4 <= Len(d)
        /\ d[i] = "s" /\ d[i + 1] = "3" /\ d[i + 2] = ":"
        /\ d[i + 3] = "/" /\ d[i + 4] = "/"

SlashPositions(d) == {i \in 1..Len(d) : d[i] = "/"}

\* what stands before the first "/" (all of d when it has none)
FirstSegment(d) ==
    IF SlashPositions(d) = {} THEN d
    ELSE SubSeq(d, 1, (CHOOSE i \in SlashPositions(d) :
                           \A j \in SlashPositions(d) : i <= j) - 1)

\* a "/" follows the first segment, so a second segment exists
HasFurtherSegment(d) == SlashPositions(d) # {}

DigitValue(c) == CHOOSE n \in 0..9 : ToString(n) = c

\* s[a..b] is one to three decimal digits that write a number from 0 to 255
IsOctet(s, a, b) ==
    /\ b - a + 1 \in 1..3
    /\ \A i \in a..b : s[i] \in Digits
    /\ LET value == IF b = a THEN DigitValue(s[a])
                    ELSE IF b = a + 1
                    THEN 10 * DigitValue(s[a]) + DigitValue(s[b])
                    ELSE 100 * DigitValue(s[a]) + 10 * DigitValue(s[a + 1])
                             + DigitValue(s[b])
       IN  value <= 255

\* four octets, each 0 to 255, separated by three dots, and nothing else
IsIPv4(s) ==
    LET dots == {i \in 1..Len(s) : s[i] = "."}
    IN  /\ Cardinality(dots) = 3
        /\ LET p1 == CHOOSE i \in dots : \A j \in dots : i <= j
               p3 == CHOOSE i \in dots : \A j \in dots : j <= i
               p2 == CHOOSE i \in dots : i # p1 /\ i # p3
           IN  /\ IsOctet(s, 1, p1 - 1)
               /\ IsOctet(s, p1 + 1, p2 - 1)
               /\ IsOctet(s, p2 + 1, p3 - 1)
               /\ IsOctet(s, p3 + 1, Len(s))

SrcKind == identify_location_type(event.source_location)
TgtKind == identify_location_type(event.target_location)

BothClassify == SrcKind.exc = "none" /\ TgtKind.exc = "none"
BothS3 == BothClassify /\ SrcKind.ret = "s3" /\ TgtKind.ret = "s3"
SomeOnPrem == BothClassify /\ (SrcKind.ret = "on-prem" \/ TgtKind.ret = "on-prem")

\* how many times the invocation called op
Count(op) == Cardinality({i \in 1..Len(out.calls) : out.calls[i].op = op})

\* the call of op was made and failed
Failed(op) == \E i \in 1..Len(out.calls) : out.calls[i] = Call(op, FALSE)

SpunUp == \E i \in 1..Len(out.response.body) :
              out.response.body[i] = "EC2 file transfer spun up. instance id is "

SideEffectOps ==
    {"ec2.run_instances", "s3.mv", "s3.upload_fileobj", "smb.connect",
     "smb.retrieveFile"}

(***************************************************************************)
(* The claims                                                              *)
(***************************************************************************)

\* C1: a dispatch with an on-prem source or target, in a configured environment
\* and with a provisioner that launches, calls run_instances exactly once and
\* returns a response whose body holds the id the provisioner returned.
C1_OnPremDispatchReturnsInstanceId ==
    ( /\ out.entry = "lambda_handler"
      /\ SomeOnPrem
      /\ env = FullEnv
      /\ world.ec2 # 0 )
    => /\ pc = "returned"
       /\ Count("ec2.run_instances") = 1
       /\ \E i \in 1..Len(out.response.body) :
              out.response.body[i] = InstanceId(world.ec2)

\* the response of a dispatch that needed no delegation
NotRequiredResponse ==
    /\ pc = "returned"
    /\ out.response.statusCode = 200
    /\ out.response.body =
           <<"File transfer started. ", "AWS transfer only - not required.">>
    /\ out.calls = <<>>

C3_ErrorsBeforeSideEffects ==
    (pc = "raised" /\ out.at \in {"identify_location_type", "decrypt_KMS_credentials"})
    => \A i \in 1..Len(out.calls) : out.calls[i].op \notin SideEffectOps

C3_Witness ==
    /\ pc = "raised"
    /\ out.entry = "move_files"
    /\ out.at = "decrypt_KMS_credentials"
    /\ Failed("kms.decrypt")

ExpectedStrategy(s, t) ==
    IF s = "s3"
    THEN IF t = "s3" THEN "_move_s3_to_s3" ELSE "_move_s3_to_on_prem"
    ELSE IF t = "s3" THEN "_move_on_prem_to_s3" ELSE "_move_on_prem_to_on_prem"

\* C5: for each of the four pairs of kinds, move_files calls the one executor of
\* that pair; no pair falls through, and an exception, if any, is the executor's.
C5_StrategySelectionTotal ==
    (out.entry = "move_files" /\ BothClassify)
    => /\ out.strategy = ExpectedStrategy(SrcKind.ret, TgtKind.ret)
       /\ out.exc # "none" => out.at \notin {"none", "identify_location_type"}

C5_Witness ==
    /\ out.entry = "move_files"
    /\ BothClassify
    /\ SrcKind.ret = "on-prem" /\ TgtKind.ret = "on-prem"
    /\ out.strategy = "_move_on_prem_to_on_prem"
    /\ pc = "returned"

\* C6: a location that holds s3:// anywhere classifies as s3.
C6_MarkerAnywhereIsS3 ==
    (classified.exc # "pending" /\ HasMarker(directory))
    => classified.exc = "none" /\ classified.ret = "s3"

\* the marker after a first segment that is an IPv4 address
C6_Witness ==
    /\ classified.exc # "pending"
    /\ HasMarker(directory)
    /\ IsIPv4(FirstSegment(directory))
    /\ classified.ret = "s3"

\* C7: a location without the marker whose first segment is a dotted-decimal
\* IPv4 address, followed by a further segment, classifies as on-prem.
C7_IPv4WithShareIsOnPrem ==
    ( /\ classified.exc # "pending"
      /\ ~HasMarker(directory)
      /\ IsIPv4(FirstSegment(directory))
      /\ HasFurtherSegment(directory) )
    => classified.exc = "none" /\ classified.ret = "on-prem"

C7_Witness ==
    /\ classified.exc # "pending"
    /\ ~HasMarker(directory)
    /\ FirstSegment(directory) = Ip_10_21_13_12
    /\ Len(directory) > Len(Ip_10_21_13_12) + 1
    /\ classified.ret = "on-prem"

\* C8: a location that neither holds the marker nor starts with an IPv4 address
\* followed by a further segment fails to classify.
C8_EverythingElseFails ==
    ( /\ classified.exc # "pending"
      /\ ~HasMarker(directory)
      /\ ~(IsIPv4(FirstSegment(directory)) /\ HasFurtherSegment(directory)) )
    => classified.exc = "Exception"

\* C9: when, after a successful SMB connect, the retrieval or the upload fails,
\* _move_on_prem_to_s3 does not return its success result.
C9_FailedLegReportsFailure ==
    ( /\ out.entry = "move_files"
      /\ out.strategy = "_move_on_prem_to_s3"
      /\ Count("smb.connect") = 1 /\ ~Failed("smb.connect")
      /\ Failed("smb.retrieveFile") \/ Failed("s3.upload_fileobj") )
    => out.execRet # "True"

====
